---- MODULE Spec2Model ----
(***************************************************************************)
(* Model of pixano/core/arrow_types: the Bbox value type (bbox.py), the    *)
(* Image value type (image.py) and the ObjectAnnotation composite type     *)
(* with its batch builder (objectAnnotation.py).                           *)
(*                                                                         *)
(* Three state machines share the module, one per source file:             *)
(*   SpecBbox   a Bbox object and the calls made on it                     *)
(*   SpecImage  an Image object, the file system it reads, and its calls   *)
(*   SpecAnn    a list of ObjectAnnotations, the shared default objects    *)
(*              of ObjectAnnotation.__init__, and the calls on them        *)
(* Each records the last call (its receiver before the call, arguments,    *)
(* result and whether it raised) so that properties of a call are state    *)
(* predicates.                                                             *)
(***************************************************************************)
EXTENDS Integers, Sequences, FiniteSets, TLC

VARIABLES
    \* SpecBbox: the Bbox object, and the last call made on it
    bbox, call,
    \* SpecImage: the Image object, the files by path, what open() would have
    \* returned when the Image was constructed, and the last call
    image, fs, eager, icall,
    \* SpecAnn: the list of ObjectAnnotations, the two default objects of
    \* ObjectAnnotation.__init__ (made once, when the function is defined),
    \* and the last call
    anns, defaults, acall

bboxVars == <<bbox, call>>
imageVars == <<image, fs, eager, icall>>
annVars == <<anns, defaults, acall>>
vars == <<bbox, call, image, fs, eager, icall, anns, defaults, acall>>

(***************************************************************************)
(* Bounds of the model.                                                    *)
(***************************************************************************)
\* significand bits of the modelled binary floating-point format
Precision == 2
\* largest x coordinate (or width) a caller passes in
MaxCoord == 6
\* largest y coordinate (or height of a box) a caller passes in
MaxY == 1
\* largest height / width a caller passes to normalize
MaxDim == 2
\* longest byte string (explicit bytes, file content) of the Image model
MaxBytes == 1
\* longest list of ObjectAnnotations
MaxAnns == 2
\* most attributes set or deleted on the annotations of the list
MaxAttrEdits == 1

(***************************************************************************)
(* Python float arithmetic, in miniature: a binary floating-point format   *)
(* with Precision significand bits, round-to-nearest ties-to-even, whose   *)
(* values are the integers m * 2^e with |m| < 2^Precision and e >= 0 (the  *)
(* unit is the format's smallest positive value).                          *)
(***************************************************************************)
Abs(n) == IF n < 0 THEN -n ELSE n

RECURSIVE FExp(_, _, _)
\* the exponent of the binade that holds n/d (n >= 0, d > 0)
FExp(n, d, e) == IF n < (2^(Precision + e)) * d THEN e ELSE FExp(n, d, e + 1)

\* n/d (n >= 0, d > 0) rounded to the nearest integer, ties to even
RoundHalfEven(n, d) ==
    LET q == n \div d
        r == n % d
    IN  IF 2 * r < d THEN q
        ELSE IF 2 * r > d THEN q + 1
        ELSE IF q % 2 = 0 THEN q ELSE q + 1

\* num/den (den > 0) rounded to the nearest value of the format
FRound(num, den) ==
    LET n == Abs(num)
        e == FExp(n, den, 0)
        mag == RoundHalfEven(n, den * (2^e)) * (2^e)
    IN  IF num < 0 THEN -mag ELSE mag

fadd(a, b) == FRound(a + b, 1)
fsub(a, b) == FRound(a - b, 1)
fdiv(a, b) == FRound(a, b)

\* the spacing of the format's values around the real number v
Ulp(v) == 2^FExp(Abs(v), 1, 0)

(***************************************************************************)
(* Results of calls: exc says the call raised, val is what it returned.    *)
(***************************************************************************)
Ok(v) == [exc |-> FALSE, val |-> v]
Fail == [exc |-> TRUE, val |-> <<>>]

(***************************************************************************)
(* pixano.transforms.boxes: the coordinate helpers bbox.py imports.        *)
(***************************************************************************)
\* [x, y, w, h] -> [x, y, x + w, y + h]; unpacking fails unless there are 4
xywh_to_xyxy(xywh) ==
    IF Len(xywh) # 4 THEN Fail
    ELSE Ok(<<xywh[1], xywh[2], fadd(xywh[1], xywh[3]), fadd(xywh[2], xywh[4])>>)

\* [xmin, ymin, xmax, ymax] -> [xmin, ymin, xmax - xmin, ymax - ymin]
xyxy_to_xywh(xyxy) ==
    IF Len(xyxy) # 4 THEN Fail
    ELSE Ok(<<xyxy[1], xyxy[2], fsub(xyxy[3], xyxy[1]), fsub(xyxy[4], xyxy[2])>>)

\* x coordinates divided by width, y coordinates by height; both positive
normalize(coord, height, width) ==
    IF height <= 0 \/ width <= 0 \/ Len(coord) # 4 THEN Fail
    ELSE Ok(<<fdiv(coord[1], width), fdiv(coord[2], height),
              fdiv(coord[3], width), fdiv(coord[4], height)>>)

(***************************************************************************)
(* class Bbox.  A method is an operator from the receiver (and arguments)  *)
(* to [exc, val, self]: whether it raised, what it returned, and the       *)
(* receiver after the call.  A method that raises leaves the receiver as   *)
(* the assignments made before the raise left it.                          *)
(***************************************************************************)
None == <<>>

Bbox_init(xyxy, format, is_normalized) ==
    [coords |-> xyxy, format |-> format, is_normalized |-> is_normalized]

from_xyxy(xyxy) == Bbox_init(xyxy, "xyxy", TRUE)

from_xywh(xywh) == Bbox_init(xywh, "xywh", TRUE)

is_normalized(self) == self.is_normalized

format(self) == self.format

to_xyxy(self) ==
    IF self.format = "xywh"
    THEN LET r == xywh_to_xyxy(self.coords)
         IN  [exc |-> r.exc, val |-> r.val, self |-> self]
    ELSE [exc |-> FALSE, val |-> self.coords, self |-> self]

to_xywh(self) ==
    IF self.format = "xyxy"
    THEN LET r == xyxy_to_xywh(self.coords)
         IN  [exc |-> r.exc, val |-> r.val, self |-> self]
    ELSE [exc |-> FALSE, val |-> self.coords, self |-> self]

\* a format_xyxy that converts the coordinates and forgets the format tag
format_xyxy_KeepsTag(self) ==
    IF self.format = "xywh"
    THEN LET r == xywh_to_xyxy(self.coords)
         IN  IF r.exc THEN [exc |-> TRUE, val |-> None, self |-> self]
             ELSE [exc |-> FALSE, val |-> None, self |-> [self EXCEPT !.coords = r.val]]
    ELSE [exc |-> FALSE, val |-> None, self |-> self]

format_xyxy(self) ==
    IF self.format = "xywh"
    THEN LET r == xywh_to_xyxy(self.coords)
         IN  IF r.exc THEN [exc |-> TRUE, val |-> None, self |-> self]
             ELSE [exc |-> FALSE, val |-> None,
                   self |-> [self EXCEPT !.coords = r.val, !.format = "xyxy"]]
    ELSE [exc |-> FALSE, val |-> None, self |-> self]

\* a format_xywh without the test of the current format
format_xywh_Unguarded(self) ==
    LET r == xyxy_to_xywh(self.coords)
    IN  IF r.exc THEN [exc |-> TRUE, val |-> None, self |-> self]
        ELSE [exc |-> FALSE, val |-> None,
              self |-> [self EXCEPT !.coords = r.val, !.format = "xywh"]]

format_xywh(self) ==
    IF self.format = "xyxy"
    THEN LET r == xyxy_to_xywh(self.coords)
         IN  IF r.exc THEN [exc |-> TRUE, val |-> None, self |-> self]
             ELSE [exc |-> FALSE, val |-> None,
                   self |-> [self EXCEPT !.coords = r.val, !.format = "xywh"]]
    ELSE [exc |-> FALSE, val |-> None, self |-> self]

\* a normalize that passes width for height and height for width
Bbox_normalize_Swapped(self, height, width) ==
    LET r == normalize(self.coords, width, height)
    IN  IF r.exc THEN [exc |-> TRUE, val |-> None, self |-> self]
        ELSE [exc |-> FALSE, val |-> None, self |-> [self EXCEPT !.coords = r.val]]

\* a normalize that also marks the box normalized
Bbox_normalize_SetsFlag(self, height, width) ==
    LET r == normalize(self.coords, height, width)
    IN  IF r.exc THEN [exc |-> TRUE, val |-> None, self |-> self]
        ELSE [exc |-> FALSE, val |-> None,
              self |-> [self EXCEPT !.coords = r.val, !.is_normalized = TRUE]]

Bbox_normalize(self, height, width) ==
    LET r == normalize(self.coords, height, width)
    IN  IF r.exc THEN [exc |-> TRUE, val |-> None, self |-> self]
        ELSE [exc |-> FALSE, val |-> None, self |-> [self EXCEPT !.coords = r.val]]

(***************************************************************************)
(* What callers pass in.                                                   *)
(***************************************************************************)
\* the coordinates of the format up to MaxCoord
CoordVals == {v \in 0..MaxCoord : FRound(v, 1) = v}

\* coordinate lists: the lists of 4 (x or width first and third, y or height
\* second and fourth), and some lists of 3 and of 5
CoordLists ==
    {<<x, y, z, t>> : x \in CoordVals, z \in CoordVals,
                      y \in {v \in CoordVals : v <= MaxY},
                      t \in {v \in CoordVals : v <= MaxY}}
    \cup [1..3 -> {0, 1}] \cup [1..5 -> {1}]

\* format strings: the two known ones and one outside them
Formats == {"xyxy", "xywh", "cxcywh"}

\* heights and widths, non-positive ones included
Dims == (-1)..MaxDim

(***************************************************************************)
(* SpecBbox: a Bbox is constructed (Bbox(...), from_xyxy or from_xywh) and *)
(* then its methods are called in any order.                               *)
(***************************************************************************)
Called(op, pre, h, w, r) ==
    [op |-> op, pre |-> pre, h |-> h, w |-> w, exc |-> r.exc, val |-> r.val]

Constructed(op, b) == Called(op, b, 0, 0, Ok(None))

InitBbox ==
    /\ image = None /\ fs = None /\ eager = None /\ icall = None
    /\ anns = None /\ defaults = None /\ acall = None
    /\ \E c \in CoordLists :
        \/ \E f \in Formats, n \in BOOLEAN :
              /\ bbox = Bbox_init(c, f, n)
              /\ call = Constructed("Bbox", bbox)
        \/ /\ bbox = from_xyxy(c)
           /\ call = Constructed("from_xyxy", bbox)
        \/ /\ bbox = from_xywh(c)
           /\ call = Constructed("from_xywh", bbox)

Method(op, h, w, r) ==
    /\ bbox' = r.self
    /\ call' = Called(op, bbox, h, w, r)
    /\ UNCHANGED <<imageVars, annVars>>

ToXyxy == Method("to_xyxy", 0, 0, to_xyxy(bbox))

ToXywh == Method("to_xywh", 0, 0, to_xywh(bbox))

FormatXyxy == Method("format_xyxy", 0, 0, format_xyxy(bbox))

FormatXywh == Method("format_xywh", 0, 0, format_xywh(bbox))

Normalize == \E h \in Dims, w \in Dims : Method("normalize", h, w, Bbox_normalize(bbox, h, w))

NextBbox == ToXyxy \/ ToXywh \/ FormatXyxy \/ FormatXywh \/ Normalize

SpecBbox == InitBbox /\ [][NextBbox]_vars

(***************************************************************************)
(* Properties of Bbox, checked under SpecBbox.                             *)
(***************************************************************************)
\* half the spacing of the format around v: the most that rounding v moves it
HalfUlp(v) == Ulp(v) \div 2

\* got is orig up to the rounding of two operations with exact results e1, e2
WithinRounding(orig, got, e1, e2) == Abs(got - orig) <= HalfUlp(e1) + HalfUlp(e2)

\* Bbox.from_xyxy(Bbox.from_xywh(Bbox.from_xyxy(x).to_xywh()).to_xyxy()).to_xyxy()
Chain(x) ==
    LET r1 == to_xywh(from_xyxy(x))
        r2 == to_xyxy(from_xywh(r1.val))
    IN  IF r1.exc THEN Fail
        ELSE IF r2.exc THEN Fail
        ELSE LET r3 == to_xyxy(from_xyxy(r2.val)) IN [exc |-> r3.exc, val |-> r3.val]

\* the last call converted a 4-coordinate box from format f to the other one
Converted(op, f) ==
    /\ call.op = op
    /\ call.pre.format = f
    /\ Len(call.pre.coords) = 4

\* C2 as stated: converting a 4-coordinate Bbox to the other format and back
\* restores the coordinates and the format tag exactly, and the chain
\* from_xyxy / to_xywh / from_xywh / to_xyxy / from_xyxy / to_xyxy returns x.
C2_RoundTripExact ==
    /\ Converted("format_xywh", "xyxy") => format_xyxy(bbox).self = call.pre
    /\ Converted("format_xyxy", "xywh") => format_xywh(bbox).self = call.pre
    /\ (call.op = "from_xyxy" /\ Len(bbox.coords) = 4)
          => Chain(bbox.coords) = Ok(bbox.coords)

\* back is box orig after a round trip through mid, up to rounding: tag, flag
\* and the first two coordinates exactly, the last two within the rounding of
\* the subtraction and the addition made on them (e1, e2: their exact results)
RestoredWithinRounding(orig, mid, back, sgn) ==
    /\ Len(back) = 4
    /\ back[1] = orig[1]
    /\ back[2] = orig[2]
    /\ \A k \in {3, 4} :
          WithinRounding(orig[k], back[k], orig[k] - sgn * orig[k - 2],
                         mid[k] + sgn * mid[k - 2])

\* C2 (amended): converting a 4-coordinate Bbox to the other format and back
\* restores the format tag, the normalized flag and the first two coordinates
\* exactly and the last two up to floating-point rounding (exactly when the
\* subtraction and the addition are exact); the chain returns x up to the same.
C2_RoundTripWithinRounding ==
    /\ Converted("format_xywh", "xyxy") =>
          LET back == format_xyxy(bbox) IN
          /\ ~call.exc /\ ~back.exc
          /\ format(bbox) = "xywh"
          /\ format(back.self) = "xyxy"
          /\ is_normalized(back.self) = is_normalized(call.pre)
          /\ RestoredWithinRounding(call.pre.coords, bbox.coords, back.self.coords, 1)
    /\ Converted("format_xyxy", "xywh") =>
          LET back == format_xywh(bbox) IN
          /\ ~call.exc /\ ~back.exc
          /\ format(bbox) = "xyxy"
          /\ format(back.self) = "xywh"
          /\ is_normalized(back.self) = is_normalized(call.pre)
          /\ RestoredWithinRounding(call.pre.coords, bbox.coords, back.self.coords, -1)
    /\ (call.op = "from_xyxy" /\ Len(bbox.coords) = 4) =>
          /\ ~Chain(bbox.coords).exc
          /\ RestoredWithinRounding(bbox.coords, to_xywh(bbox).val,
                                    Chain(bbox.coords).val, 1)

\* C2 witness: an xyxy box was converted to xywh, and converting it back yields
\* a third coordinate that rounding moved off the original
C2_Witness ==
    /\ Converted("format_xywh", "xyxy")
    /\ ~call.exc
    /\ bbox.format = "xywh"
    /\ format_xyxy(bbox).self.format = "xyxy"
    /\ format_xyxy(bbox).self.coords[3] # call.pre.coords[3]

\* C3: calling format_xyxy (format_xywh) again after it was called changes
\* nothing, and calling it on a box already in that format changes neither
\* coordinates, format tag nor normalized flag.
C3_SameFormatIdempotent ==
    /\ call.op = "format_xyxy" => format_xyxy(bbox).self = bbox
    /\ call.op = "format_xywh" => format_xywh(bbox).self = bbox
    /\ (call.op = "format_xyxy" /\ call.pre.format = "xyxy") => bbox = call.pre
    /\ (call.op = "format_xywh" /\ call.pre.format = "xywh") => bbox = call.pre

\* C3 witness: format_xywh was called on a box already in xywh format, one that
\* a conversion to xywh would have changed
C3_Witness ==
    /\ call.op = "format_xywh"
    /\ call.pre.format = "xywh"
    /\ Len(call.pre.coords) = 4
    /\ xyxy_to_xywh(call.pre.coords).val # call.pre.coords
    /\ bbox = call.pre

\* C6 as stated: every Bbox that exists has exactly 4 coordinates and a format
\* tag in {xyxy, xywh}.
C6_BboxWellFormed ==
    /\ Len(bbox.coords) = 4
    /\ format(bbox) \in {"xyxy", "xywh"}

C10_FrameEffects ==
    /\ call.op = "normalize" =>
          /\ format(bbox) = format(call.pre)
          /\ is_normalized(bbox) = is_normalized(call.pre)
          /\ ~call.exc => bbox.coords = normalize(call.pre.coords, call.h, call.w).val
    /\ call.op \in {"format_xyxy", "format_xywh"} =>
          is_normalized(bbox) = is_normalized(call.pre)
    /\ call.op \in {"to_xyxy", "to_xywh"} => bbox = call.pre

\* C10 witness: normalize rescaled a box built with is_normalized = False, and
\* the box still reports False
C10_Witness ==
    /\ call.op = "normalize"
    /\ ~call.exc
    /\ ~is_normalized(call.pre)
    /\ bbox.coords # call.pre.coords
    /\ ~is_normalized(bbox)

(***************************************************************************)
(* class Image (image.py).  An optional value is None or Some(v).  A file  *)
(* path is the sequence of its components; fs maps a path to None (no such *)
(* file) or Some(content).                                                 *)
(***************************************************************************)
Some(v) == <<v>>

Get(opt) == opt[1]

Image_init(uri, bytes, preview_bytes, uri_prefix) ==
    [uri |-> uri, bytes |-> bytes, preview_bytes |-> preview_bytes,
     uri_prefix |-> uri_prefix]

\* the path Image.open opens: uri_prefix / uri, or uri alone
Image_path(self) ==
    IF self.uri_prefix # None THEN <<Get(self.uri_prefix), Get(self.uri)>>
    ELSE <<Get(self.uri)>>

\* open(uri, "rb") and the read() of the handle: the content, or an IOError
Image_open(self, files) ==
    IF self.uri = None THEN Fail
    ELSE IF files[Image_path(self)] = None THEN Fail
    ELSE Ok(files[Image_path(self)])

\* a bytes accessor that looks at the URI before the explicit bytes
Image_bytes_UriFirst(self, files) ==
    IF self.uri # None THEN Image_open(self, files)
    ELSE IF self.bytes # None THEN Ok(self.bytes)
    ELSE Ok(None)

Image_bytes(self, files) ==
    IF self.bytes # None THEN Ok(self.bytes)
    ELSE IF self.uri # None THEN Image_open(self, files)
    ELSE Ok(None)

B64Alphabet ==
    <<"A", "B", "C", "D", "E", "F", "G", "H", "I", "J", "K", "L", "M", "N", "O", "P",
      "Q", "R", "S", "T", "U", "V", "W", "X", "Y", "Z", "a", "b", "c", "d", "e", "f",
      "g", "h", "i", "j", "k", "l", "m", "n", "o", "p", "q", "r", "s", "t", "u", "v",
      "w", "x", "y", "z", "0", "1", "2", "3", "4", "5", "6", "7", "8", "9", "+", "/">>

B64Char(n) == B64Alphabet[n + 1]

RECURSIVE b64encode(_)
\* base64.b64encode(b).decode("utf-8"): 3 bytes to 4 characters, '=' padding
b64encode(b) ==
    IF Len(b) = 0 THEN ""
    ELSE IF Len(b) = 1
    THEN B64Char(b[1] \div 4) \o B64Char((b[1] % 4) * 16) \o "=="
    ELSE IF Len(b) = 2
    THEN B64Char(b[1] \div 4) \o B64Char((b[1] % 4) * 16 + b[2] \div 16)
         \o B64Char((b[2] % 16) * 4) \o "="
    ELSE B64Char(b[1] \div 4) \o B64Char((b[1] % 4) * 16 + b[2] \div 16)
         \o B64Char((b[2] % 16) * 4 + b[3] \div 64) \o B64Char(b[3] % 64)
         \o b64encode(SubSeq(b, 4, Len(b)))

DataUrl(b) == "data:image;base64," \o b64encode(b)

\* b64encode(None) raises TypeError
Image_preview_url(self) ==
    IF self.preview_bytes = None THEN Fail
    ELSE Ok(DataUrl(Get(self.preview_bytes)))

Image_url(self, files) ==
    LET data == Image_bytes(self, files)
    IN  IF data.exc THEN Fail
        ELSE IF data.val # None THEN Ok(DataUrl(Get(data.val)))
        ELSE Ok("")

Image_to_dict(self) ==
    Ok([uri |-> self.uri, bytes |-> self.bytes, preview_bytes |-> self.preview_bytes])

(***************************************************************************)
(* SpecImage: an Image is constructed over some files; then its accessors  *)
(* are called and the files are written or removed, in any order.          *)
(***************************************************************************)
ByteVals == {0, 255}

\* the byte strings of at most MaxBytes bytes
ByteStrings == UNION {[1..n -> ByteVals] : n \in 0..MaxBytes}

OptBytes == {None} \cup {Some(b) : b \in ByteStrings}

Uris == {None, Some("img.png")}

Prefixes == {None, Some("media")}

Paths == {<<"img.png">>, <<"media", "img.png">>}

ICalled(op, r) == [op |-> op, exc |-> r.exc, val |-> r.val]

InitImage ==
    /\ bbox = None /\ call = None
    /\ anns = None /\ defaults = None /\ acall = None
    /\ fs \in [Paths -> OptBytes]
    /\ \E u \in Uris, b \in OptBytes, pb \in {None, Some(<<255>>)}, x \in Prefixes :
          image = Image_init(u, b, pb, x)
    /\ eager = Image_open(image, fs)
    /\ icall = ICalled("Image", Ok(None))

Access(op, r) ==
    /\ icall' = ICalled(op, r)
    /\ UNCHANGED <<image, fs, eager, bboxVars, annVars>>

Bytes == Access("bytes", Image_bytes(image, fs))

Url == Access("url", Image_url(image, fs))

PreviewUrl == Access("preview_url", Image_preview_url(image))

Open == Access("open", Image_open(image, fs))

ToDict == Access("to_dict", Image_to_dict(image))

\* the environment writes or removes a file
FsWrite ==
    \E p \in Paths, c \in OptBytes :
        /\ fs[p] # c
        /\ fs' = [fs EXCEPT ![p] = c]
        /\ icall' = ICalled("fs_write", Ok(None))
        /\ UNCHANGED <<image, eager, bboxVars, annVars>>

NextImage == Bytes \/ Url \/ PreviewUrl \/ Open \/ ToDict \/ FsWrite

SpecImage == InitImage /\ [][NextImage]_vars

(***************************************************************************)
(* Properties of Image, checked under SpecImage.                           *)
(***************************************************************************)
\* C8: the bytes accessor returns the explicit bytes when present (the URI is
\* not read: a missing file does not make it raise), else what the URI's file
\* holds when the accessor is called, else None; with neither URI nor bytes
\* bytes returns None and url returns "", neither raising.
C8_ContentPrecedence ==
    /\ icall.op = "bytes" =>
          /\ image.bytes # None => (~icall.exc /\ icall.val = image.bytes)
          /\ (image.bytes = None /\ image.uri # None) =>
                IF fs[Image_path(image)] = None THEN icall.exc
                ELSE ~icall.exc /\ icall.val = fs[Image_path(image)]
          /\ (image.bytes = None /\ image.uri = None) =>
                (~icall.exc /\ icall.val = None)
    /\ (icall.op = "url" /\ image.bytes = None /\ image.uri = None) =>
          (~icall.exc /\ icall.val = "")

\* C8 witness: bytes was read from the URI's file, whose content is no longer
\* what it was when the Image was constructed
C8_Witness ==
    /\ icall.op = "bytes"
    /\ image.bytes = None
    /\ image.uri # None
    /\ ~icall.exc
    /\ icall.val = fs[Image_path(image)]
    /\ ~eager.exc
    /\ icall.val # eager.val

(***************************************************************************)
(* class ObjectAnnotation (objectAnnotation.py).  An object is its         *)
(* __dict__: a function from attribute names to values.  A scalar value is *)
(* None or Some(v).  A nested value (bbox, mask, pose) is None or          *)
(* Some(ref), ref naming a Python object: Python passes and stores         *)
(* references, so two annotations holding the same ref hold the same       *)
(* object.                                                                 *)
(***************************************************************************)
AttrNames ==
    <<"id", "view_id", "bbox", "bbox_source", "bbox_confidence", "is_group_of",
      "is_difficult", "is_truncated", "mask", "mask_source", "area", "pose",
      "category_id", "category_name", "identity">>

AttrSet == {AttrNames[k] : k \in 1..Len(AttrNames)}

NestedAttrs == {"bbox", "mask", "pose"}

\* the objects a nested attribute can refer to: the two default objects of
\* __init__ (a list and a dict), and a BBox, a CompressedRLE and a Pose that
\* the caller made
Kind(ref) ==
    CASE ref = "default_bbox" -> "list"
      [] ref = "default_pose" -> "dict"
      [] ref = "B1" -> "BBox"
      [] ref = "M1" -> "CompressedRLE"
      [] ref = "P1" -> "Pose"

\* the default objects as the def statement makes them
DefaultObjects ==
    [bbox |-> <<0, 0, 0, 0>>,
     pose |-> [cam_R_m2c |-> <<0, 0, 0, 0, 0, 0, 0, 0, 0>>, cam_t_m2c |-> <<0, 0, 0>>]]

\* what ref refers to, d being the default objects as they are now
Content(ref, d) ==
    CASE ref = "default_bbox" -> d.bbox
      [] ref = "default_pose" -> d.pose
      [] ref = "B1" -> [type |-> "BBox", coords |-> <<0, 0, 1, 1>>,
                        format |-> "xywh", is_normalized |-> TRUE]
      [] ref = "M1" -> [type |-> "CompressedRLE", size |-> <<2, 2>>, counts |-> <<7>>]
      [] ref = "P1" -> [type |-> "Pose", cam_R_m2c |-> <<1, 0, 0, 0, 1, 0, 0, 0, 1>>,
                        cam_t_m2c |-> <<0, 0, 1>>]

\* the keys of type_mapping other than ObjectAnnotation itself
RegisteredKinds == {"BBox", "Pose", "CompressedRLE"}

\* to_dict of a BBox, CompressedRLE or Pose: the fields of its physical layout
Nested_to_dict(obj) == [f \in DOMAIN obj \ {"type"} |-> obj[f]]

\* the value of a parameter: the argument given, or the parameter's default
Arg(kw, name) ==
    IF name \in DOMAIN kw THEN kw[name]
    ELSE IF name = "bbox" THEN Some("default_bbox")
    ELSE IF name = "pose" THEN Some("default_pose")
    ELSE None

\* ObjectAnnotation(**kw); id is required
ObjectAnnotation_init(kw) == [n \in AttrSet |-> Arg(kw, n)]

\* obj.name
HasAttr(obj, name) == name \in DOMAIN obj

\* value.to_dict() of a nested attribute value: None, a list and a dict have no
\* to_dict
CanToDict(v) == v # None /\ Kind(Get(v)) \in RegisteredKinds

ObjectAnnotation_to_dict(self, d) ==
    IF \E n \in AttrSet : ~HasAttr(self, n) THEN Fail
    ELSE IF \E n \in NestedAttrs : ~CanToDict(self[n]) THEN Fail
    ELSE Ok([n \in AttrSet |->
                IF n \in NestedAttrs THEN Some(Nested_to_dict(Content(Get(self[n]), d)))
                ELSE self[n]])

\* a cell of a row decoded: null to None, a nested struct to the object it encodes
Cell_as_py(name, cell) ==
    IF cell = None \/ name \notin NestedAttrs THEN cell
    ELSE Some(CHOOSE ref \in {"B1", "M1", "P1"} :
                 Nested_to_dict(Content(ref, DefaultObjects)) = Get(cell))

\* ObjectAnnotationTypeScalar.as_py: every cell is passed to __init__
ObjectAnnotationTypeScalar_as_py(row) ==
    Ok(ObjectAnnotation_init([n \in AttrSet |-> Cell_as_py(n, row[n])]))

\* pa.array(values) of plain Python values: None is null, a list or a dict is
\* converted by value; an arbitrary Python object is refused
PlainConvertible(v) == v = None \/ Kind(Get(v)) \notin RegisteredKinds

PlainCell(name, v, d) ==
    IF v = None \/ name \notin NestedAttrs THEN v
    ELSE Some(Content(Get(v), d))

\* the column of one attribute, values being getattr(annotation, attr) of each
\* annotation in turn
Column(name, values, d) ==
    IF name \in NestedAttrs /\ values[1] # None /\ Kind(Get(values[1])) \in RegisteredKinds
    THEN IF \E i \in 1..Len(values) : ~CanToDict(values[i]) THEN Fail
         ELSE Ok([i \in 1..Len(values) |->
                     Some(Nested_to_dict(Content(Get(values[i]), d)))])
    ELSE IF name \in NestedAttrs /\ \E i \in 1..Len(values) : ~PlainConvertible(values[i])
    THEN Fail
    ELSE Ok([i \in 1..Len(values) |-> PlainCell(name, values[i], d)])

\* the result: keys are the attribute names, col[a] the column of attribute a
ObjectAnnotationArray_from_list_to_dict(annotation_list, d) ==
    IF Len(annotation_list) = 0 THEN Ok([keys |-> {}, col |-> <<>>])
    ELSE LET attributes == DOMAIN annotation_list[1]
             N == Len(annotation_list)
         IN  IF \E a \in attributes, i \in 1..N : ~HasAttr(annotation_list[i], a)
             THEN Fail
             ELSE LET cols == [a \in attributes |->
                                  Column(a, [i \in 1..N |-> annotation_list[i][a]], d)]
                  IN  IF \E a \in attributes : cols[a].exc THEN Fail
                      ELSE Ok([keys |-> attributes,
                               col |-> [a \in attributes |-> cols[a].val]])

(***************************************************************************)
(* SpecAnn: annotations are constructed and appended to a list, attributes *)
(* are set and deleted on them, their default bbox and pose are mutated in *)
(* place, rows are decoded, and to_dict and from_list_to_dict are called.  *)
(***************************************************************************)
\* id and scalar metadata: all left out, or all given
Metas ==
    {[id |-> Some("a")],
     [id |-> Some("b"), view_id |-> Some("image"), bbox_source |-> Some("gt"),
      bbox_confidence |-> Some(1), is_group_of |-> Some(FALSE),
      is_difficult |-> Some(FALSE), is_truncated |-> Some(TRUE),
      mask_source |-> Some("gt"), area |-> Some(4), category_id |-> Some(3),
      category_name |-> Some("cat"), identity |-> Some("x")]}

\* the argument left out, given as None, or given as an object
BboxArgs == {<<>>, [bbox |-> None], [bbox |-> Some("B1")]}

MaskArgs == {<<>>, [mask |-> Some("M1")]}

PoseArgs == {<<>>, [pose |-> None], [pose |-> Some("P1")]}

\* the rows a column store hands back: nested cells null or encoded
Rows ==
    {[n \in AttrSet |->
         IF n = "bbox" THEN b ELSE IF n = "mask" THEN m ELSE IF n = "pose" THEN q
         ELSE Arg([id |-> Some("a")], n)] :
       b \in {None, Some(Nested_to_dict(Content("B1", DefaultObjects)))},
       m \in {None, Some(Nested_to_dict(Content("M1", DefaultObjects)))},
       q \in {None, Some(Nested_to_dict(Content("P1", DefaultObjects)))}}

\* what annotation a shows of its bbox and pose
View(a, d) ==
    [n \in {"bbox", "pose"} |-> IF a[n] = None THEN None ELSE Some(Content(Get(a[n]), d))]

Views(L, d) == [i \in 1..Len(L) |-> View(L[i], d)]

ACalled(op, i, r, pre) == [op |-> op, i |-> i, exc |-> r.exc, val |-> r.val, pre |-> pre]

InitAnn ==
    /\ bbox = None /\ call = None
    /\ image = None /\ fs = None /\ eager = None /\ icall = None
    /\ anns = <<>>
    /\ defaults = DefaultObjects
    /\ acall = ACalled("import", 0, Ok(None), None)

New ==
    /\ Len(anns) < MaxAnns
    /\ \E meta \in Metas, b \in BboxArgs, m \in MaskArgs, q \in PoseArgs :
          anns' = Append(anns, ObjectAnnotation_init(meta @@ b @@ m @@ q))
    /\ acall' = ACalled("ObjectAnnotation", Len(anns) + 1, Ok(None), None)
    /\ UNCHANGED <<defaults, bboxVars, imageVars>>

\* the attributes set or deleted so far
AttrEdits(L) ==
    Cardinality({i \in 1..Len(L) : HasAttr(L[i], "extra")})
    + Cardinality({i \in 1..Len(L) : ~HasAttr(L[i], "identity")})

\* anns[i].extra = 1
SetAttr ==
    \E i \in 1..Len(anns) :
        /\ AttrEdits(anns) < MaxAttrEdits
        /\ ~HasAttr(anns[i], "extra")
        /\ anns' = [anns EXCEPT ![i] = anns[i] @@ ("extra" :> Some(1))]
        /\ acall' = ACalled("setattr", i, Ok(None), None)
        /\ UNCHANGED <<defaults, bboxVars, imageVars>>

\* del anns[i].identity
DelAttr ==
    \E i \in 1..Len(anns) :
        /\ AttrEdits(anns) < MaxAttrEdits
        /\ HasAttr(anns[i], "identity")
        /\ anns' = [anns EXCEPT ![i] = [n \in DOMAIN anns[i] \ {"identity"} |-> anns[i][n]]]
        /\ acall' = ACalled("delattr", i, Ok(None), None)
        /\ UNCHANGED <<defaults, bboxVars, imageVars>>

\* anns[i].bbox[0] = 1, on an annotation that has its default bbox
MutateBbox ==
    \E i \in 1..Len(anns) :
        /\ anns[i]["bbox"] = Some("default_bbox")
        /\ defaults.bbox[1] # 1
        /\ defaults' = [defaults EXCEPT !.bbox[1] = 1]
        /\ acall' = ACalled("mutate_bbox", i, Ok(None), Views(anns, defaults))
        /\ UNCHANGED <<anns, bboxVars, imageVars>>

\* anns[i].pose["cam_t_m2c"][0] = 1, on an annotation that has its default pose
MutatePose ==
    \E i \in 1..Len(anns) :
        /\ anns[i]["pose"] = Some("default_pose")
        /\ defaults.pose.cam_t_m2c[1] # 1
        /\ defaults' = [defaults EXCEPT !.pose.cam_t_m2c[1] = 1]
        /\ acall' = ACalled("mutate_pose", i, Ok(None), Views(anns, defaults))
        /\ UNCHANGED <<anns, bboxVars, imageVars>>

AnnToDict ==
    \E i \in 1..Len(anns) :
        /\ acall' = ACalled("to_dict", i, ObjectAnnotation_to_dict(anns[i], defaults), None)
        /\ UNCHANGED <<anns, defaults, bboxVars, imageVars>>

\* rows are decoded when a table is read, before a list is built from them;
\* as_py reads nothing but its row
AsPy ==
    \E row \in Rows :
        /\ anns = <<>>
        /\ acall' = ACalled("as_py", 0, ObjectAnnotationTypeScalar_as_py(row), row)
        /\ UNCHANGED <<anns, defaults, bboxVars, imageVars>>

FromListToDict ==
    /\ acall' = ACalled("from_list_to_dict", 0,
                        ObjectAnnotationArray_from_list_to_dict(anns, defaults), None)
    /\ UNCHANGED <<anns, defaults, bboxVars, imageVars>>

NextAnn ==
    \/ New \/ SetAttr \/ DelAttr \/ MutateBbox \/ MutatePose
    \/ AnnToDict \/ AsPy \/ FromListToDict

SpecAnn == InitAnn /\ [][NextAnn]_vars

(***************************************************************************)
(* Properties of ObjectAnnotation and its batch builder, checked under     *)
(* SpecAnn.                                                                *)
(***************************************************************************)
\* every annotation of the list has the attribute set of the first
SameAttributes(L) == \A i \in 1..Len(L) : DOMAIN L[i] = DOMAIN L[1]

\* the encoding of value v of attribute name: a scalar as it is, None as null,
\* a BBox, CompressedRLE or Pose as its to_dict, a list or dict by value
Encoded(name, v, d) ==
    IF v = None \/ name \notin NestedAttrs THEN v
    ELSE IF Kind(Get(v)) \in RegisteredKinds THEN Some(Nested_to_dict(Content(Get(v), d)))
    ELSE Some(Content(Get(v), d))

\* C1 as stated: from_list_to_dict of N annotations with one attribute set
\* returns one column per attribute of the first, each of length N, element i
\* the encoding of the attribute of the i-th annotation; the empty mapping for
\* N = 0; and does not raise.
C1_BatchColumns ==
    (acall.op = "from_list_to_dict" /\ SameAttributes(anns)) =>
        /\ ~acall.exc
        /\ Len(anns) = 0 => acall.val.keys = {}
        /\ Len(anns) > 0 =>
              /\ acall.val.keys = DOMAIN anns[1]
              /\ \A a \in DOMAIN anns[1] :
                    /\ Len(acall.val.col[a]) = Len(anns)
                    /\ \A i \in 1..Len(anns) :
                          acall.val.col[a][i] = Encoded(a, anns[i][a], defaults)

\* annotation a has the 15 attributes, and each of bbox, mask and pose is
\* absent (None) or present (a BBox, a CompressedRLE, a Pose)
AbsentOrPresent(a) ==
    /\ DOMAIN a = AttrSet
    /\ \A n \in NestedAttrs : a[n] = None \/ Kind(Get(a[n])) \in RegisteredKinds

\* C4 as stated: for every combination of absent and present bbox, mask and
\* pose, to_dict and from_list_to_dict do not raise and give null for exactly
\* the absent nested fields, and decoding a row gives None for its null cells.
C4_NullableNested ==
    /\ (acall.op = "to_dict" /\ AbsentOrPresent(anns[acall.i])) =>
          /\ ~acall.exc
          /\ \A n \in NestedAttrs : (acall.val[n] = None) <=> (anns[acall.i][n] = None)
    /\ (acall.op = "from_list_to_dict" /\ \A i \in 1..Len(anns) : AbsentOrPresent(anns[i])) =>
          /\ ~acall.exc
          /\ \A i \in 1..Len(anns), n \in NestedAttrs :
                (acall.val.col[n][i] = None) <=> (anns[i][n] = None)
    /\ acall.op = "as_py" =>
          /\ ~acall.exc
          /\ \A n \in NestedAttrs : acall.pre[n] = None => acall.val[n] = None

\* C5 as stated: from_list_to_dict raises whenever an annotation of the list
\* has an attribute set other than the first one's.
C5_SchemaMismatchRejected ==
    (acall.op = "from_list_to_dict" /\ ~SameAttributes(anns)) => acall.exc

\* C9 as stated: after an in-place mutation of the default bbox or pose of one
\* annotation, the bbox and pose of every other annotation are as before.
C9_FreshDefaults ==
    acall.op \in {"mutate_bbox", "mutate_pose"} =>
        \A j \in (1..Len(anns)) \ {acall.i} : View(anns[j], defaults) = acall.pre[j]

====
